---- MODULE Spec2Model ----
(***************************************************************************)
(* Conference organization app (conference.py, main.py): the registration  *)
(* engine and the wishlist manager over a datastore with entity groups and *)
(* optimistic transactions.                                                *)
(*                                                                         *)
(* Datastore semantics assumed of ndb (the store is a collaborator):       *)
(*  - an entity group is the root of a key: a Profile is its own group, a  *)
(*    Conference and its Sessions live in the organizer's Profile group;   *)
(*  - inside @ndb.transactional every put is buffered until commit, an     *)
(*    exception discards the buffer, and the commit fails when a group the *)
(*    transaction has read was written since it read it; ndb then re-runs  *)
(*    the function, and gives up with TransactionFailedError after its     *)
(*    retries;                                                             *)
(*  - reads of one group inside a transaction see one snapshot of it;      *)
(*  - a transaction that is not xg=True may use one entity group only: the *)
(*    read of a second group raises BadRequestError;                       *)
(*  - a put outside a transaction is written at once.                      *)
(* Every datastore RPC is one step, and steps of concurrent requests       *)
(* interleave. The arrival of a request is one step with its first RPC,    *)
(* and a failed commit is one step with the first RPC of the re-run:       *)
(* neither an arrival nor a failed commit writes anything.                 *)
(***************************************************************************)
EXTENDS Integers, Sequences, FiniteSets, TLC

\* ---- bounds of the model ----
NUsers == 2            \* authenticated users
NProcs == 2            \* request handlers running concurrently
MaxConfs == 1          \* conference ids the allocator hands out
MaxSessions == 1       \* session ids the allocator hands out
WishSessions == 2      \* session ids in the wishlist-only specification
MaxSeats == 1          \* clients register/unregister while seatsAvailable <= MaxSeats
MaxRetries == 1        \* re-runs of a transaction before TransactionFailedError
RaceN == 3             \* callers in the race for the last seat
SeqN == 3              \* wishlist calls made one after another
FeatConfs == 2         \* conferences in the featured-speaker specification
FeatSessions == 4      \* sessions in the featured-speaker specification
FeatProcs == 1         \* handlers in the featured-speaker specification

\* ---- program constants ----
DefaultMaxAttendees == 500    \* DEFAULTS["maxAttendees"]
DefaultSeatsAvailable == 500  \* DEFAULTS["seatsAvailable"]
DefaultSpeaker == "Michael Johnson"  \* DEFAULTS_SESSION["speaker"]
MEMCACHE_ANNOUNCEMENTS_KEY == "RECENT_ANNOUNCEMENTS"
MEMCACHE_FEATURED_KEY == "FEATURED SPEAKER: "
NoFeaturedSpeakers == "There are 0 featured speakers"
FeaturedAppearances == 2      \* if speakerAppearances >= 2

VARIABLES
    profiles,     \* Profile entities, by user id
    conferences,  \* Conference entities, by allocated id
    sessions,     \* Session entities, by allocated id
    call,         \* the request each handler is serving, and where it stands
    memcache,     \* the memcache entries, by key
    taskqueue     \* the tasks of the default push queue, oldest first

vars == <<profiles, conferences, sessions, call, memcache, taskqueue>>
store == <<profiles, conferences, sessions>>
side == <<memcache, taskqueue>>

Users == DOMAIN profiles
Procs == DOMAIN call
ConfIds == DOMAIN conferences
SessIds == DOMAIN sessions

\* ---- keys (websafe key strings) ----
\* id 0 is a well-formed key of an entity that was never stored
ConfKey(i) == [kind |-> "Conference", id |-> i]
SessKey(j) == [kind |-> "Session", id |-> j]
ProfKey(u) == [kind |-> "Profile", id |-> u]
NoKey == [kind |-> "None", id |-> 0]

\* ---- entities ----
NoProfile == [exists |-> FALSE, conferenceKeysToAttend |-> <<>>, sessWishlist |-> <<>>]
NoConference == [exists |-> FALSE, organizerUserId |-> 0, maxAttendees |-> 0, seatsAvailable |-> 0]
NoSession == [exists |-> FALSE, conf |-> 0, speaker |-> ""]

\* Profile(key=p_key, ...) of _getProfileFromUser: both lists empty
NewProfile == [exists |-> TRUE, conferenceKeysToAttend |-> <<>>, sessWishlist |-> <<>>]

\* ndb.Key(urlsafe=wsck).get() for a conference key
GetConference(k) ==
    IF k.kind = "Conference" /\ k.id \in ConfIds THEN conferences[k.id] ELSE NoConference

\* ndb.Key(urlsafe=websafeSessionKey).get() for a session key
GetSession(k) ==
    IF k.kind = "Session" /\ k.id \in SessIds THEN sessions[k.id] ELSE NoSession

\* the entity group (root Profile id) of a stored conference / session
ConfGroup(i) == conferences[i].organizerUserId
SessGroup(j) == ConfGroup(sessions[j].conf)

\* ---- sequences as Python lists ----
InList(x, s) == \E n \in 1..Len(s) : s[n] = x

\* list.remove(x): drops the first occurrence
RECURSIVE ListRemove(_, _)
ListRemove(s, x) ==
    IF s = <<>> THEN <<>>
    ELSE IF Head(s) = x THEN Tail(s)
    ELSE <<Head(s)>> \o ListRemove(Tail(s), x)

NoDuplicates(s) == \A m, n \in 1..Len(s) : s[m] = s[n] => m = n

\* ---- memcache ----
\* an entry is <<>> when the key is not set, <<v>> when it holds v
NoEntries == [key \in {MEMCACHE_ANNOUNCEMENTS_KEY, MEMCACHE_FEATURED_KEY} |-> <<>>]

\* ---- requests ----
Idle == [pc |-> "idle", op |-> "none", user |-> 0, wsck |-> NoKey,
         prof |-> NoProfile, conf |-> NoConference, retval |-> "none",
         retries |-> 0, conflict |-> FALSE, result |-> "none",
         order |-> <<>>, items |-> <<>>]

\* a request of user u with key k arrives
Request(o, u, k) == [Idle EXCEPT !.op = o, !.user = u, !.wsck = k]

\* the endpoint answers r (a BooleanMessage, or the exception raised)
Finish(c, r) ==
    [Idle EXCEPT !.pc = "done", !.op = c.op, !.user = c.user, !.wsck = c.wsck, !.result = r]

\* ---- optimistic concurrency ----
InTransaction(c) == c.op \in {"register", "unregister", "addWishlist", "updateConference"}

\* the entity groups the transaction of request c has read so far
Touched(c) ==
    CASE c.pc = "reg_conf" -> {c.user}
      [] c.pc = "reg_commit" -> {c.user, ConfGroup(c.wsck.id)}
      [] c.pc = "add_commit" -> {c.user}
      [] c.pc = "upd_commit" -> {c.user}
      [] OTHER -> {}

\* a write to `groups` by handler p (0: none of them) makes every other
\* transaction that has read one of these groups fail at its commit
Invalidate(cs, groups, p) ==
    [q \in DOMAIN cs |->
        IF q # p /\ InTransaction(cs[q]) /\ Touched(cs[q]) \cap groups # {}
        THEN [cs[q] EXCEPT !.conflict = TRUE]
        ELSE cs[q]]

\* a failed commit: ndb runs the function again, until its retries are used up
CanRetry(c) == c.retries < MaxRetries
Rerun(c) == [Request(c.op, c.user, c.wsck) EXCEPT !.retries = c.retries + 1]

\* ---- the push queue ----
SendEmailUrl == "/tasks/send_confirmation_email"
FeaturedSpeakerUrl == "/tasks/featured_speaker"

\* taskqueue.add(params={param: value}, url=url); retried: a delivery has failed
Task(url, param, value) == [url |-> url, param |-> param, value |-> value, retried |-> FALSE]

\* ---- createConference ----
\* a request field: <<>> when the client left it out, <<n>> when it sent n
WithDefault(field, default) == IF field = <<>> THEN default ELSE field[1]

\* the Conference _createConferenceObject stores for the request's fields
CreatedConference(u, maxAttendees, seatsAvailable) ==
    LET ma == WithDefault(maxAttendees, DefaultMaxAttendees)
        sa == WithDefault(seatsAvailable, DefaultSeatsAvailable)
    IN [exists |-> TRUE, organizerUserId |-> u, maxAttendees |-> ma,
        seatsAvailable |-> IF ma > 0 THEN ma ELSE sa]

\* Conference.allocate_ids / Session.allocate_ids: an id never handed out before
FreeConfId(i) == ~conferences[i].exists /\ \A h \in ConfIds : h < i => conferences[h].exists
FreeSessId(j) == ~sessions[j].exists /\ \A h \in SessIds : h < j => sessions[h].exists

CreateConference(u, maxAttendees, seatsAvailable) ==
    \E i \in ConfIds :
        /\ FreeConfId(i)
        /\ conferences' = [conferences EXCEPT
                              ![i] = CreatedConference(u, maxAttendees, seatsAvailable)]
        /\ call' = Invalidate(call, {u}, 0)
        /\ taskqueue' = Append(taskqueue, Task(SendEmailUrl, "conferenceInfo", ConfKey(i)))
        /\ UNCHANGED <<profiles, sessions, memcache>>

\* ---- createSession ----
\* the speaker _createSessionObject stores: DEFAULTS_SESSION replaces a field
\* the client left out (None), not an empty string
CreatedSession(i, speaker) ==
    [exists |-> TRUE, conf |-> i, speaker |-> WithDefault(speaker, DefaultSpeaker)]

CreateSession(u, i, speaker) ==
    \E j \in SessIds :
        /\ conferences[i].exists
        /\ u = conferences[i].organizerUserId
        /\ FreeSessId(j)
        /\ sessions' = [sessions EXCEPT ![j] = CreatedSession(i, speaker)]
        /\ call' = Invalidate(call, {u}, 0)
        /\ taskqueue' = Append(taskqueue, Task(FeaturedSpeakerUrl, "websafeConferenceKey", ConfKey(i)))
        /\ UNCHANGED <<profiles, conferences, memcache>>

\* ---- updateConference ----
\* the loop over request.all_fields(): a field the client sent (not None, not
\* []) is written to the Conference, maxAttendees and seatsAvailable included
UpdatedConference(conf, maxAttendees, seatsAvailable) ==
    [conf EXCEPT !.maxAttendees = WithDefault(maxAttendees, @),
                 !.seatsAvailable = WithDefault(seatsAvailable, @)]

\* conf = ndb.Key(urlsafe=request.websafeConferenceKey).get() in the
\* transaction, the two checks and the copy of the fields; items keeps the
\* request's maxAttendees and seatsAvailable for a rerun
UpdGetConf(c) ==
    LET conf == GetConference(c.wsck) IN
    IF ~conf.exists THEN Finish(c, "NotFound")
    ELSE IF c.user # conf.organizerUserId THEN Finish(c, "Forbidden")
    ELSE [c EXCEPT !.pc = "upd_commit",
                   !.conf = UpdatedConference(conf, c.items[1], c.items[2])]

UpdateConference(p, u, k, maxAttendees, seatsAvailable) ==
    /\ call[p].pc = "idle"
    /\ call' = [call EXCEPT ![p] =
          UpdGetConf([Request("updateConference", u, k) EXCEPT
                         !.items = <<maxAttendees, seatsAvailable>>])]
    /\ UNCHANGED <<store, side>>

\* conf.put(); prof = ndb.Key(Profile, user_id).get(); getattr(prof,
\* 'displayName') raises for an organizer without a Profile, which rolls the
\* transaction back; otherwise the transaction commits
UpdCommit(p) ==
    LET c == call[p] IN
    /\ c.pc = "upd_commit"
    /\ UNCHANGED side
    /\ IF c.conflict
       THEN /\ call' = [call EXCEPT ![p] =
                  IF CanRetry(c) THEN UpdGetConf([Rerun(c) EXCEPT !.items = c.items])
                  ELSE Finish(c, "TransactionFailedError")]
            /\ UNCHANGED store
       ELSE IF ~profiles[c.user].exists
       THEN /\ call' = [call EXCEPT ![p] = Finish(c, "AttributeError")]
            /\ UNCHANGED store
       ELSE /\ conferences' = [conferences EXCEPT ![c.wsck.id] = c.conf]
            /\ call' = [Invalidate(call, {c.user}, p) EXCEPT ![p] = Finish(c, "ConferenceForm")]
            /\ UNCHANGED <<profiles, sessions>>

\* ---- registerForConference / unregisterFromConference ----
\* keys a client can send: of a stored conference, or of none
ConferenceKeys ==
    {ConfKey(0)} \cup
    {ConfKey(i) : i \in {h \in ConfIds : /\ conferences[h].exists
                                         /\ conferences[h].seatsAvailable <= MaxSeats}}

\* the conference lives in the caller's own entity group
OwnConference(c) ==
    LET conf == GetConference(c.wsck) IN conf.exists /\ conf.organizerUserId = c.user

\* prof = self._getProfileFromUser(), inside the transaction: the put of a new
\* Profile is buffered. The first read of the caller's group fixes its snapshot,
\* which a conference of the caller's own is later read from.
RegGetProfile(c) ==
    [c EXCEPT !.pc = "reg_conf",
              !.prof = IF profiles[c.user].exists THEN profiles[c.user] ELSE NewProfile,
              !.conf = IF OwnConference(c) THEN GetConference(c.wsck) ELSE NoConference]

\* mutant: the Profile made for a first-time caller is written at once, outside
\* the transaction's buffer
RegisterForConferenceEagerPut(p, u, k) ==
    /\ call[p].pc = "idle"
    /\ UNCHANGED side
    /\ call' = [call EXCEPT ![p] = RegGetProfile(Request("register", u, k))]
    /\ profiles' = IF profiles[u].exists THEN profiles
                   ELSE [profiles EXCEPT ![u] = NewProfile]
    /\ UNCHANGED <<conferences, sessions>>

RegisterForConference(p, u, k) ==
    /\ call[p].pc = "idle"
    /\ UNCHANGED side
    /\ call' = [call EXCEPT ![p] = RegGetProfile(Request("register", u, k))]
    /\ UNCHANGED store

UnregisterFromConference(p, u, k) ==
    /\ call[p].pc = "idle"
    /\ UNCHANGED side
    /\ call' = [call EXCEPT ![p] = RegGetProfile(Request("unregister", u, k))]
    /\ UNCHANGED store

\* mutant: register does not test whether the caller is registered already
ConferenceRegistrationNoDuplicateCheck(c, conf) ==
    IF ~conf.exists THEN Finish(c, "NotFound")
    ELSE IF c.op = "register" THEN
        IF conf.seatsAvailable <= 0 THEN Finish(c, "Conflict: no seats available")
        ELSE [c EXCEPT !.pc = "reg_commit", !.retval = "True",
                       !.prof.conferenceKeysToAttend = Append(@, c.wsck),
                       !.conf = [conf EXCEPT !.seatsAvailable = @ - 1]]
    ELSE
        IF InList(c.wsck, c.prof.conferenceKeysToAttend)
        THEN [c EXCEPT !.pc = "reg_commit", !.retval = "True",
                       !.prof.conferenceKeysToAttend = ListRemove(@, c.wsck),
                       !.conf = [conf EXCEPT !.seatsAvailable = @ + 1]]
        ELSE [c EXCEPT !.pc = "reg_commit", !.retval = "False", !.conf = conf]

\* mutant: unregister gives a seat back whether or not the caller was registered
ConferenceRegistrationAlwaysRelease(c, conf) ==
    LET registered == InList(c.wsck, c.prof.conferenceKeysToAttend) IN
    IF ~conf.exists THEN Finish(c, "NotFound")
    ELSE IF c.op = "register" THEN
        IF registered THEN Finish(c, "Conflict: already registered")
        ELSE IF conf.seatsAvailable <= 0 THEN Finish(c, "Conflict: no seats available")
        ELSE [c EXCEPT !.pc = "reg_commit", !.retval = "True",
                       !.prof.conferenceKeysToAttend = Append(@, c.wsck),
                       !.conf = [conf EXCEPT !.seatsAvailable = @ - 1]]
    ELSE [c EXCEPT !.pc = "reg_commit", !.retval = "True",
                   !.prof.conferenceKeysToAttend = ListRemove(@, c.wsck),
                   !.conf = [conf EXCEPT !.seatsAvailable = @ + 1]]

\* mutant: unregister takes the key off the list and keeps the seat
ConferenceRegistrationKeepsSeat(c, conf) ==
    LET registered == InList(c.wsck, c.prof.conferenceKeysToAttend) IN
    IF ~conf.exists THEN Finish(c, "NotFound")
    ELSE IF c.op = "register" THEN
        IF registered THEN Finish(c, "Conflict: already registered")
        ELSE IF conf.seatsAvailable <= 0 THEN Finish(c, "Conflict: no seats available")
        ELSE [c EXCEPT !.pc = "reg_commit", !.retval = "True",
                       !.prof.conferenceKeysToAttend = Append(@, c.wsck),
                       !.conf = [conf EXCEPT !.seatsAvailable = @ - 1]]
    ELSE
        IF registered
        THEN [c EXCEPT !.pc = "reg_commit", !.retval = "True",
                       !.prof.conferenceKeysToAttend = ListRemove(@, c.wsck),
                       !.conf = conf]
        ELSE [c EXCEPT !.pc = "reg_commit", !.retval = "False", !.conf = conf]

\* the body of _conferenceRegistration from conf = ndb.Key(urlsafe=wsck).get()
\* up to the puts: the request as it stands after it
ConferenceRegistration(c, conf) ==
    LET registered == InList(c.wsck, c.prof.conferenceKeysToAttend) IN
    IF ~conf.exists THEN Finish(c, "NotFound")
    ELSE IF c.op = "register" THEN
        IF registered THEN Finish(c, "Conflict: already registered")
        ELSE IF conf.seatsAvailable <= 0 THEN Finish(c, "Conflict: no seats available")
        ELSE [c EXCEPT !.pc = "reg_commit", !.retval = "True",
                       !.prof.conferenceKeysToAttend = Append(@, c.wsck),
                       !.conf = [conf EXCEPT !.seatsAvailable = @ - 1]]
    ELSE
        IF registered
        THEN [c EXCEPT !.pc = "reg_commit", !.retval = "True",
                       !.prof.conferenceKeysToAttend = ListRemove(@, c.wsck),
                       !.conf = [conf EXCEPT !.seatsAvailable = @ + 1]]
        ELSE [c EXCEPT !.pc = "reg_commit", !.retval = "False", !.conf = conf]

\* conf = ndb.Key(urlsafe=wsck).get() as the transaction sees it
ReadConference(c) == IF OwnConference(c) THEN c.conf ELSE GetConference(c.wsck)

RegGetConf(p) ==
    LET c == call[p] IN
    /\ c.pc = "reg_conf"
    /\ UNCHANGED side
    /\ call' = [call EXCEPT ![p] = ConferenceRegistration(c, ReadConference(c))]
    /\ UNCHANGED store

\* mutant: the commit does not check what the transaction has read
RegCommitUnchecked(p) ==
    LET c == call[p] IN
    /\ c.pc = "reg_commit"
    /\ UNCHANGED side
    /\ profiles' = [profiles EXCEPT ![c.user] = c.prof]
    /\ conferences' = [conferences EXCEPT ![c.wsck.id] = c.conf]
    /\ call' = [Invalidate(call, {c.user, ConfGroup(c.wsck.id)}, p)
                   EXCEPT ![p] = Finish(c, c.retval)]
    /\ UNCHANGED sessions

\* mutant: conf.put() is lost, only the Profile is written
RegCommitProfileOnly(p) ==
    LET c == call[p] IN
    /\ c.pc = "reg_commit"
    /\ UNCHANGED side
    /\ IF c.conflict
       THEN /\ call' = [call EXCEPT ![p] =
                  IF CanRetry(c) THEN RegGetProfile(Rerun(c))
                  ELSE Finish(c, "TransactionFailedError")]
            /\ UNCHANGED store
       ELSE /\ profiles' = [profiles EXCEPT ![c.user] = c.prof]
            /\ call' = [Invalidate(call, {c.user}, p) EXCEPT ![p] = Finish(c, c.retval)]
            /\ UNCHANGED <<conferences, sessions>>

\* mutant: a committed registration change clears the announcement
RegCommitClearsAnnouncement(p) ==
    LET c == call[p] IN
    /\ c.pc = "reg_commit"
    /\ UNCHANGED taskqueue
    /\ IF c.conflict
       THEN /\ call' = [call EXCEPT ![p] =
                  IF CanRetry(c) THEN RegGetProfile(Rerun(c))
                  ELSE Finish(c, "TransactionFailedError")]
            /\ UNCHANGED <<store, memcache>>
       ELSE /\ profiles' = [profiles EXCEPT ![c.user] = c.prof]
            /\ conferences' = [conferences EXCEPT ![c.wsck.id] = c.conf]
            /\ memcache' = [memcache EXCEPT ![MEMCACHE_ANNOUNCEMENTS_KEY] = <<>>]
            /\ call' = [Invalidate(call, {c.user, ConfGroup(c.wsck.id)}, p)
                           EXCEPT ![p] = Finish(c, c.retval)]
            /\ UNCHANGED sessions

\* prof.put(); conf.put(); return: the commit of the xg transaction
RegCommit(p) ==
    LET c == call[p] IN
    /\ c.pc = "reg_commit"
    /\ UNCHANGED side
    /\ IF c.conflict
       THEN /\ call' = [call EXCEPT ![p] =
                  IF CanRetry(c) THEN RegGetProfile(Rerun(c))
                  ELSE Finish(c, "TransactionFailedError")]
            /\ UNCHANGED store
       ELSE /\ profiles' = [profiles EXCEPT ![c.user] = c.prof]
            /\ conferences' = [conferences EXCEPT ![c.wsck.id] = c.conf]
            /\ call' = [Invalidate(call, {c.user, ConfGroup(c.wsck.id)}, p)
                           EXCEPT ![p] = Finish(c, c.retval)]
            /\ UNCHANGED sessions

\* ---- addSessionToWishlist ----
\* keys a client can send: of a stored session, or of none
SessionKeys == {SessKey(0)} \cup {SessKey(j) : j \in {h \in SessIds : sessions[h].exists}}

\* the entity groups the transaction of a request for a stored session uses:
\* the group of the session it reads and the group of the Profile it reads and puts
AddGroups(c) == {SessGroup(c.wsck.id), c.user}

\* mutant: the session is appended without the membership test
AddGetSessionNoCheck(c) ==
    LET sess == GetSession(c.wsck)
        prof == IF profiles[c.user].exists THEN profiles[c.user] ELSE NewProfile
    IN
    IF ~sess.exists THEN Finish(c, "NotFound")
    ELSE IF SessGroup(c.wsck.id) # c.user THEN Finish(c, "BadRequestError")
    ELSE [c EXCEPT !.pc = "add_commit", !.retval = "True",
                   !.prof = [prof EXCEPT !.sessWishlist = Append(@, c.wsck)]]

\* ndb.Key(urlsafe=k).get() finds an entity: the key of any kind resolves
Stored(k) ==
    CASE k.kind = "Session" -> GetSession(k).exists
      [] k.kind = "Conference" -> GetConference(k).exists
      [] k.kind = "Profile" -> k.id \in Users /\ profiles[k.id].exists
      [] OTHER -> FALSE

\* the entity group of the stored entity of key k
KeyGroup(k) ==
    CASE k.kind = "Session" -> SessGroup(k.id)
      [] k.kind = "Conference" -> ConfGroup(k.id)
      [] OTHER -> k.id

\* sess = ndb.Key(urlsafe=request.websafeSessionKey).get(), the first read of
\* the transaction, and prof = self._getProfileFromUser(), a read of the
\* caller's group. The kind of the key is not looked at. The transaction is
\* not xg: when the entity is in another group, the datastore refuses the
\* second read; when it is in the caller's group both reads are of one snapshot.
AddGetSession(c) ==
    LET prof == IF profiles[c.user].exists THEN profiles[c.user] ELSE NewProfile IN
    IF ~Stored(c.wsck) THEN Finish(c, "NotFound")
    ELSE IF KeyGroup(c.wsck) # c.user THEN Finish(c, "BadRequestError")
    ELSE IF InList(c.wsck, prof.sessWishlist) THEN Finish(c, "Conflict: already on wishlist")
    ELSE [c EXCEPT !.pc = "add_commit", !.retval = "True",
                   !.prof = [prof EXCEPT !.sessWishlist = Append(@, c.wsck)]]

AddSessionToWishlist(p, u, k) ==
    /\ call[p].pc = "idle"
    /\ UNCHANGED side
    /\ call' = [call EXCEPT ![p] = AddGetSession(Request("addWishlist", u, k))]
    /\ UNCHANGED store

\* prof.put(); return: the commit of the transaction
AddCommit(p) ==
    LET c == call[p] IN
    /\ c.pc = "add_commit"
    /\ UNCHANGED side
    /\ IF c.conflict
       THEN /\ call' = [call EXCEPT ![p] =
                  IF CanRetry(c) THEN AddGetSession(Rerun(c))
                  ELSE Finish(c, "TransactionFailedError")]
            /\ UNCHANGED store
       ELSE /\ profiles' = [profiles EXCEPT ![c.user] = c.prof]
            /\ call' = [Invalidate(call, {c.user}, p) EXCEPT ![p] = Finish(c, c.retval)]
            /\ UNCHANGED <<conferences, sessions>>

\* ---- deleteSessionInWishlist (no transaction) ----
\* prof = self._getProfileFromUser(): profile = p_key.get()
DeleteSessionInWishlist(p, u, k) ==
    LET c == Request("deleteWishlist", u, k) IN
    /\ call[p].pc = "idle"
    /\ UNCHANGED side
    /\ call' = [call EXCEPT ![p] =
          IF profiles[u].exists
          THEN [c EXCEPT !.pc = "del_sess", !.prof = profiles[u]]
          ELSE [c EXCEPT !.pc = "del_newprof", !.prof = NewProfile]]
    /\ UNCHANGED store

\* _getProfileFromUser: profile.put() of the Profile it has just made
DelPutNewProfile(p) ==
    LET c == call[p] IN
    /\ c.pc = "del_newprof"
    /\ UNCHANGED side
    /\ profiles' = [profiles EXCEPT ![c.user] = c.prof]
    /\ call' = [Invalidate(call, {c.user}, p) EXCEPT ![p] = [c EXCEPT !.pc = "del_sess"]]
    /\ UNCHANGED <<conferences, sessions>>

\* sess = ...get(); conf_key = sess.key.parent().urlsafe(); conf = ...get();
\* and the membership test. sess is None for a key that does not resolve, and
\* sess.key then raises AttributeError. A stored session's conference is never
\* deleted, so the two reads are one step.
DelGetSession(p) ==
    LET c == call[p]
        sess == GetSession(c.wsck)
        conf == GetConference(ConfKey(sess.conf))
    IN
    /\ c.pc = "del_sess"
    /\ UNCHANGED side
    /\ call' = [call EXCEPT ![p] =
          IF ~sess.exists THEN Finish(c, "AttributeError")
          ELSE IF ~conf.exists THEN Finish(c, "NotFound")
          ELSE IF ~InList(c.wsck, c.prof.sessWishlist)
               THEN Finish(c, "Conflict: not on wishlist")
          ELSE [c EXCEPT !.pc = "del_put", !.retval = "True",
                         !.prof.sessWishlist = ListRemove(@, c.wsck)]]
    /\ UNCHANGED store

\* mutant: the request answers without writing the Profile
DelPutLost(p) ==
    LET c == call[p] IN
    /\ c.pc = "del_put"
    /\ call' = [call EXCEPT ![p] = Finish(c, c.retval)]
    /\ UNCHANGED <<store, side>>

\* prof.put(): the whole Profile as this request read it, written at once
DelPut(p) ==
    LET c == call[p] IN
    /\ c.pc = "del_put"
    /\ UNCHANGED side
    /\ profiles' = [profiles EXCEPT ![c.user] = c.prof]
    /\ call' = [Invalidate(call, {c.user}, p) EXCEPT ![p] = Finish(c, c.retval)]
    /\ UNCHANGED <<conferences, sessions>>

\* ---- getSessionsInWishlist (no transaction) ----
\* prof = self._getProfileFromUser(): profile = p_key.get()
GetSessionsInWishlist(p, u) ==
    LET c == Request("getWishlist", u, NoKey) IN
    /\ call[p].pc = "idle"
    /\ call' = [call EXCEPT ![p] =
          IF profiles[u].exists
          THEN [c EXCEPT !.pc = "list_get", !.prof = profiles[u]]
          ELSE [c EXCEPT !.pc = "list_newprof", !.prof = NewProfile]]
    /\ UNCHANGED <<store, side>>

\* _getProfileFromUser: profile.put() of the Profile it has just made
ListPutNewProfile(p) ==
    LET c == call[p] IN
    /\ c.pc = "list_newprof"
    /\ profiles' = [profiles EXCEPT ![c.user] = c.prof]
    /\ call' = [Invalidate(call, {c.user}, p) EXCEPT ![p] = [c EXCEPT !.pc = "list_get"]]
    /\ UNCHANGED <<conferences, sessions, side>>

\* _copySessionToForm(sess) of a stored session with key k
CopySessionToForm(k, sess) == [websafeKey |-> k, conf |-> sess.conf, speaker |-> sess.speaker]

\* sessions = ndb.get_multi(session_keys) holds None for a key that does not
\* resolve; _copySessionToForm(None) finds none of the form's fields on None
\* and, at the field websafeKey, evaluates sess.key: AttributeError
SessionForms(c) ==
    LET keys == c.prof.sessWishlist IN
    IF \E n \in 1..Len(keys) : ~GetSession(keys[n]).exists
    THEN Finish(c, "AttributeError")
    ELSE [Finish(c, "SessionForms") EXCEPT
             !.items = [n \in 1..Len(keys) |-> CopySessionToForm(keys[n], GetSession(keys[n]))]]

ListGetMulti(p) ==
    LET c == call[p] IN
    /\ c.pc = "list_get"
    /\ call' = [call EXCEPT ![p] = SessionForms(c)]
    /\ UNCHANGED <<store, side>>

\* ---- _cacheFeaturedSpeaker ----
\* speaker_list: the speakers of the conference's sessions, in the order of the
\* ancestor query (by key), a session without a speaker left out
RECURSIVE SpeakerListFrom(_, _)
SpeakerListFrom(i, j) ==
    IF j \notin SessIds THEN <<>>
    ELSE IF sessions[j].exists /\ sessions[j].conf = i /\ sessions[j].speaker # ""
         THEN <<sessions[j].speaker>> \o SpeakerListFrom(i, j + 1)
         ELSE SpeakerListFrom(i, j + 1)
SpeakerList(i) == SpeakerListFrom(i, 1)

\* Counter(speaker_list): its keys, and the count of a key
Keys(list) == {list[n] : n \in 1..Len(list)}
Count(list, key) == Cardinality({n \in 1..Len(list) : list[n] = key})

\* the orders in which `for key in dict` can visit the keys: a dict of
\* Python 2 iterates in the order of its hash table, any order to the program
RECURSIVE IterationOrders(_)
IterationOrders(keys) ==
    IF keys = {} THEN {<<>>}
    ELSE UNION {{<<key>> \o rest : rest \in IterationOrders(keys \ {key})} : key \in keys}

\* mutant: a later key with as many appearances replaces the choice
RECURSIVE SpeakerArrayLastWins(_, _, _, _)
SpeakerArrayLastWins(order, list, speaker, appearances) ==
    IF order = <<>> THEN <<speaker, appearances>>
    ELSE LET key == Head(order)
             value == Count(list, key)
         IN IF value >= appearances
            THEN SpeakerArrayLastWins(Tail(order), list, key, value)
            ELSE SpeakerArrayLastWins(Tail(order), list, speaker, appearances)

\* the loop over the Counter: [speaker, appearances] after the keys of `order`
RECURSIVE SpeakerArray(_, _, _, _)
SpeakerArray(order, list, speaker, appearances) ==
    IF order = <<>> THEN <<speaker, appearances>>
    ELSE LET key == Head(order)
             value == Count(list, key)
         IN IF value > appearances
            THEN SpeakerArray(Tail(order), list, key, value)
            ELSE SpeakerArray(Tail(order), list, speaker, appearances)

\* conf = ndb.Key(urlsafe=websafeConferenceKey).get()
CacheFeaturedSpeaker(p, k) ==
    LET c == Request("cacheFeaturedSpeaker", 0, k) IN
    /\ call[p].pc = "idle"
    /\ call' = [call EXCEPT ![p] =
          IF GetConference(k).exists THEN [c EXCEPT !.pc = "feat_query"]
          ELSE Finish(c, "NotFound")]
    /\ UNCHANGED <<store, side>>

\* mutant: a speaker is featured from its third session on
FeaturedSpeakerOverTwo(c, order) ==
    LET list == SpeakerList(c.wsck.id)
        array == SpeakerArray(order, list, "None", 0)
    IN
    IF list = <<>> THEN Finish(c, "UnboundLocalError")
    ELSE IF array[2] > FeaturedAppearances
         THEN [c EXCEPT !.pc = "feat_set", !.retval = array[1], !.order = order]
         ELSE [Finish(c, "None") EXCEPT !.order = order]

\* the ancestor query and the choice of the speaker. The lines that count the
\* speakers are indented with tabs, which Python 2 reads as the body of
\* `if spkr.speaker:` inside the loop over the sessions: the choice is made
\* anew at every session with a speaker, the last time over the whole
\* speaker_list, and speakerArray is not bound when no session has a speaker.
FeaturedSpeaker(c, order) ==
    LET list == SpeakerList(c.wsck.id)
        array == SpeakerArray(order, list, "None", 0)
    IN
    IF list = <<>> THEN Finish(c, "UnboundLocalError")
    ELSE IF array[2] >= FeaturedAppearances
         THEN [c EXCEPT !.pc = "feat_set", !.retval = array[1], !.order = order]
         ELSE [Finish(c, "None") EXCEPT !.order = order]

FeatQuery(p) ==
    LET c == call[p] IN
    /\ c.pc = "feat_query"
    /\ \E order \in IterationOrders(Keys(SpeakerList(c.wsck.id))) :
          call' = [call EXCEPT ![p] = FeaturedSpeaker(c, order)]
    /\ UNCHANGED <<store, side>>

\* mutant: the entry is written only when it is not set yet
FeatSetIfAbsent(p) ==
    LET c == call[p] IN
    /\ c.pc = "feat_set"
    /\ memcache' = IF memcache[MEMCACHE_FEATURED_KEY] = <<>>
                   THEN [memcache EXCEPT ![MEMCACHE_FEATURED_KEY] = <<c.retval>>]
                   ELSE memcache
    /\ call' = [call EXCEPT ![p] = [Finish(c, c.retval) EXCEPT !.order = c.order]]
    /\ UNCHANGED <<store, taskqueue>>

\* memcache.set(MEMCACHE_FEATURED_KEY, featuredSpeaker); return featured
FeatSet(p) ==
    LET c == call[p] IN
    /\ c.pc = "feat_set"
    /\ memcache' = [memcache EXCEPT ![MEMCACHE_FEATURED_KEY] = <<c.retval>>]
    /\ call' = [call EXCEPT ![p] = [Finish(c, c.retval) EXCEPT !.order = c.order]]
    /\ UNCHANGED <<store, taskqueue>>

\* ---- getFeaturedSpeaker ----
\* featured = memcache.get(MEMCACHE_FEATURED_KEY); `not featured` holds for a
\* missing entry and for an empty string
CachedFeaturedSpeaker ==
    LET entry == memcache[MEMCACHE_FEATURED_KEY] IN
    IF entry = <<>> \/ entry = <<"">> THEN NoFeaturedSpeakers ELSE entry[1]

\* mutant: the read takes the entry out of the cache
GetFeaturedSpeakerAndDelete(p) ==
    /\ call[p].pc = "idle"
    /\ call' = [call EXCEPT ![p] =
          Finish(Request("getFeaturedSpeaker", 0, NoKey), CachedFeaturedSpeaker)]
    /\ memcache' = [memcache EXCEPT ![MEMCACHE_FEATURED_KEY] = <<>>]
    /\ UNCHANGED <<store, taskqueue>>

GetFeaturedSpeaker(p) ==
    /\ call[p].pc = "idle"
    /\ call' = [call EXCEPT ![p] =
          Finish(Request("getFeaturedSpeaker", 0, NoKey), CachedFeaturedSpeaker)]
    /\ UNCHANGED <<store, side>>

\* ---- the task handlers of main.py ----
\* `speaker_counter {}` at line 48 of main.py is a syntax error: the module
\* that holds the three handlers cannot be imported, and every request routed
\* to it is answered with an error
MainLoads == FALSE

SetAnnouncementUrl == "/crons/set_announcement"
SpeakerCheckUrl == "/tasks/speaker_check"

\* the routes of webapp2.WSGIApplication
Routes == {SetAnnouncementUrl, SendEmailUrl, SpeakerCheckUrl}

\* the POST of a task is answered with success: its URL is routed, the handler
\* has a post method (SetAnnouncementHandler has only get), and SpeakerCheck
\* finds the key under the parameter it reads ('c_keySt'; ndb.Key raises on
\* the empty string request.get gives for a parameter that was not sent)
Accepts(t) ==
    /\ MainLoads
    /\ t.url \in Routes
    /\ t.url # SetAnnouncementUrl
    /\ t.url = SpeakerCheckUrl => t.param = "c_keySt"

Without(queue, n) == [m \in 1..(Len(queue) - 1) |-> IF m < n THEN queue[m] ELSE queue[m + 1]]

\* the push queue POSTs the n-th task to its URL. An accepted task leaves the
\* queue: SendConfirmationEmailHandler sends a mail, SpeakerCheck writes the
\* key "FEATURED: <conference key>", which no endpoint reads; no handler calls
\* _cacheFeaturedSpeaker. A task that is not accepted stays queued and is
\* delivered again.
Deliver(n) ==
    /\ n \in DOMAIN taskqueue
    /\ taskqueue' = IF Accepts(taskqueue[n]) THEN Without(taskqueue, n)
                    ELSE [taskqueue EXCEPT ![n].retried = TRUE]
    /\ UNCHANGED <<store, call, memcache>>

\* ---- _cacheAnnouncement ----
\* ANNOUNCEMENT_TPL up to its %s, which ends it
ANNOUNCEMENT_TPL ==
    "Last chance to attend! The following conferences are nearly sold out: "

\* the query's bounds on seatsAvailable: <= 5 and > 0
NearlySoldOut == 5
SoldOut == 0

\* the name the organizer gave the conference of id i
ConfNames == <<"PyCon", "JSConf", "GopherCon", "RustConf", "DockerCon", "KubeCon">>
ConfName(i) == ConfNames[i]

\* ', '.join(names)
RECURSIVE Join(_)
Join(names) ==
    IF names = <<>> THEN ""
    ELSE IF Len(names) = 1 THEN names[1]
    ELSE names[1] \o ", " \o Join(Tail(names))

\* mutant: a conference with exactly five seats left is not nearly sold out
AlmostSoldOutBelowFive ==
    {i \in ConfIds : /\ conferences[i].exists
                     /\ conferences[i].seatsAvailable < NearlySoldOut
                     /\ conferences[i].seatsAvailable > SoldOut}

\* Conference.query(ndb.AND(seatsAvailable <= 5, seatsAvailable > 0))
AlmostSoldOut ==
    {i \in ConfIds : /\ conferences[i].exists
                     /\ conferences[i].seatsAvailable <= NearlySoldOut
                     /\ conferences[i].seatsAvailable > SoldOut}

\* the scheduler calls _cacheAnnouncement; .fetch(projection=[Conference.name])
\* gives the names of the conferences of the query, in the order of the index
CacheAnnouncement(p) ==
    /\ call[p].pc = "idle"
    /\ \E order \in IterationOrders(AlmostSoldOut) :
          call' = [call EXCEPT ![p] =
              [Request("cacheAnnouncement", 0, NoKey) EXCEPT
                  !.pc = "ann_set",
                  !.items = [n \in 1..Len(order) |-> ConfName(order[n])]]]
    /\ UNCHANGED <<store, side>>

\* mutant: with no conference to announce the empty text is stored
AnnSetStoresEmpty(p) ==
    LET c == call[p]
        announcement == ANNOUNCEMENT_TPL \o Join(c.items)
    IN
    /\ c.pc = "ann_set"
    /\ IF c.items # <<>>
       THEN /\ memcache' = [memcache EXCEPT ![MEMCACHE_ANNOUNCEMENTS_KEY] = <<announcement>>]
            /\ call' = [call EXCEPT ![p] = Finish(c, announcement)]
       ELSE /\ memcache' = [memcache EXCEPT ![MEMCACHE_ANNOUNCEMENTS_KEY] = <<"">>]
            /\ call' = [call EXCEPT ![p] = Finish(c, "")]
    /\ UNCHANGED <<store, taskqueue>>

\* `if confs:` memcache.set of the formatted text, else memcache.delete;
\* return announcement
AnnSet(p) ==
    LET c == call[p]
        announcement == ANNOUNCEMENT_TPL \o Join(c.items)
    IN
    /\ c.pc = "ann_set"
    /\ IF c.items # <<>>
       THEN /\ memcache' = [memcache EXCEPT ![MEMCACHE_ANNOUNCEMENTS_KEY] = <<announcement>>]
            /\ call' = [call EXCEPT ![p] = Finish(c, announcement)]
       ELSE /\ memcache' = [memcache EXCEPT ![MEMCACHE_ANNOUNCEMENTS_KEY] = <<>>]
            /\ call' = [call EXCEPT ![p] = Finish(c, "")]
    /\ UNCHANGED <<store, taskqueue>>

\* ---- getAnnouncement ----
\* memcache.get(MEMCACHE_ANNOUNCEMENTS_KEY) or ""
CachedAnnouncement ==
    LET entry == memcache[MEMCACHE_ANNOUNCEMENTS_KEY] IN
    IF entry = <<>> THEN "" ELSE entry[1]

GetAnnouncement(p) ==
    /\ call[p].pc = "idle"
    /\ call' = [call EXCEPT ![p] =
          Finish(Request("getAnnouncement", 0, NoKey), CachedAnnouncement)]
    /\ UNCHANGED <<store, side>>

\* the response has been sent
Return(p) ==
    /\ call[p].pc = "done"
    /\ UNCHANGED side
    /\ call' = [call EXCEPT ![p] = Idle]
    /\ UNCHANGED store

\* ---- the specifications ----
\* registration and wishlist requests of all users, on conferences of one seat
Init ==
    /\ profiles = [u \in 1..NUsers |-> NoProfile]
    /\ conferences = [i \in 1..MaxConfs |-> NoConference]
    /\ sessions = [j \in 1..MaxSessions |-> NoSession]
    /\ call = [p \in 1..NProcs |-> Idle]
    /\ memcache = NoEntries
    /\ taskqueue = <<>>

Next ==
    \/ \E u \in Users : CreateConference(u, <<1>>, <<>>)
    \/ \E u \in Users, i \in ConfIds : CreateSession(u, i, <<>>)
    \/ \E p \in Procs, u \in Users, k \in ConferenceKeys : RegisterForConference(p, u, k)
    \/ \E p \in Procs, u \in Users, k \in ConferenceKeys : UnregisterFromConference(p, u, k)
    \/ \E p \in Procs : RegGetConf(p)
    \/ \E p \in Procs : RegCommit(p)
    \/ \E p \in Procs, u \in Users, k \in SessionKeys : AddSessionToWishlist(p, u, k)
    \/ \E p \in Procs : AddCommit(p)
    \/ \E p \in Procs, u \in Users, k \in SessionKeys : DeleteSessionInWishlist(p, u, k)
    \/ \E p \in Procs : DelPutNewProfile(p)
    \/ \E p \in Procs : DelGetSession(p)
    \/ \E p \in Procs : DelPut(p)
    \/ \E p \in Procs : Return(p)

Spec == Init /\ [][Next]_vars

\* wishlist requests of all users, on the sessions of one conference
InitWishlist ==
    /\ profiles = [u \in 1..NUsers |-> NoProfile]
    /\ conferences = [i \in 1..MaxConfs |-> NoConference]
    /\ sessions = [j \in 1..WishSessions |-> NoSession]
    /\ call = [p \in 1..NProcs |-> Idle]
    /\ memcache = NoEntries
    /\ taskqueue = <<>>

NextWishlist ==
    \/ \E u \in Users : CreateConference(u, <<1>>, <<>>)
    \/ \E u \in Users, i \in ConfIds : CreateSession(u, i, <<>>)
    \/ \E p \in Procs, u \in Users, k \in SessionKeys : AddSessionToWishlist(p, u, k)
    \/ \E p \in Procs : AddCommit(p)
    \/ \E p \in Procs, u \in Users, k \in SessionKeys : DeleteSessionInWishlist(p, u, k)
    \/ \E p \in Procs : DelPutNewProfile(p)
    \/ \E p \in Procs : DelGetSession(p)
    \/ \E p \in Procs : DelPut(p)
    \/ \E p \in Procs : Return(p)

SpecWishlist == InitWishlist /\ [][NextWishlist]_vars

\* RaceN users, each with or without a Profile, register once each for a
\* conference created with maxAttendees = 1, of one of them or of another user
InitRace ==
    /\ profiles \in [1..RaceN + 1 -> {NoProfile, NewProfile}]
    /\ \E o \in {1, RaceN + 1} :
          conferences = [i \in 1..1 |-> CreatedConference(o, <<1>>, <<>>)]
    /\ sessions = [j \in 1..1 |-> NoSession]
    /\ call = [p \in 1..RaceN |-> Idle]
    /\ memcache = NoEntries
    /\ taskqueue = <<Task(SendEmailUrl, "conferenceInfo", ConfKey(1))>>

NextRace ==
    \/ \E p \in Procs : RegisterForConference(p, p, ConfKey(1))
    \/ \E p \in Procs : RegGetConf(p)
    \/ \E p \in Procs : RegCommit(p)

SpecRace == InitRace /\ [][NextRace]_vars

\* wishlist calls made one after another: handler p serves the p-th call, which
\* arrives when the calls before it have been answered; conferences and
\* sessions are created between calls
Quiet == \A p \in Procs : call[p].pc \in {"idle", "done"}
Turn(p) ==
    \A q \in Procs : call[q].pc = IF q < p THEN "done" ELSE "idle"

InitSequence ==
    /\ profiles = [u \in 1..NUsers |-> NoProfile]
    /\ conferences = [i \in 1..MaxConfs |-> NoConference]
    /\ sessions = [j \in 1..MaxSessions |-> NoSession]
    /\ call = [p \in 1..SeqN |-> Idle]
    /\ memcache = NoEntries
    /\ taskqueue = <<>>

NextSequence ==
    \/ \E u \in Users : Quiet /\ CreateConference(u, <<1>>, <<>>)
    \/ \E u \in Users, i \in ConfIds : Quiet /\ CreateSession(u, i, <<>>)
    \/ \E p \in Procs, u \in Users, k \in SessionKeys : Turn(p) /\ AddSessionToWishlist(p, u, k)
    \/ \E p \in Procs : AddCommit(p)
    \/ \E p \in Procs, u \in Users, k \in SessionKeys : Turn(p) /\ DeleteSessionInWishlist(p, u, k)
    \/ \E p \in Procs : DelPutNewProfile(p)
    \/ \E p \in Procs : DelGetSession(p)
    \/ \E p \in Procs : DelPut(p)

SpecSequence == InitSequence /\ [][NextSequence]_vars

\* the wishlist of the organizer of a conference is listed after sessions it
\* holds have been deleted from the datastore (no endpoint deletes a session;
\* the datastore's administrator can)
DupFreeSeqs(S) ==
    {<<>>} \cup {<<x>> : x \in S} \cup {w \in S \X S : w[1] # w[2]}

InitList ==
    /\ profiles \in [1..NUsers -> {NoProfile} \cup
           {[NewProfile EXCEPT !.sessWishlist = w] :
               w \in DupFreeSeqs({SessKey(j) : j \in 1..WishSessions})}]
    /\ \A u \in 2..NUsers : profiles[u].sessWishlist = <<>>
    /\ conferences = [i \in 1..1 |-> CreatedConference(1, <<1>>, <<>>)]
    /\ sessions \in [1..WishSessions -> {NoSession, CreatedSession(1, <<>>)}]
    /\ call = [p \in 1..NProcs |-> Idle]
    /\ memcache = NoEntries
    /\ taskqueue = <<Task(SendEmailUrl, "conferenceInfo", ConfKey(1))>> \o
          [j \in 1..WishSessions |-> Task(FeaturedSpeakerUrl, "websafeConferenceKey", ConfKey(1))]

NextList ==
    \/ \E p \in Procs, u \in Users : GetSessionsInWishlist(p, u)
    \/ \E p \in Procs : ListPutNewProfile(p)
    \/ \E p \in Procs : ListGetMulti(p)
    \/ \E p \in Procs : Return(p)

SpecList == InitList /\ [][NextList]_vars

\* the featured speaker of the conferences of one organizer is computed and
\* read while sessions with and without a speaker are created
SpeakerInputs == {<<"">>, <<"A">>, <<"B">>}

InitFeatured ==
    /\ profiles = [u \in 1..1 |-> NoProfile]
    /\ conferences = [i \in 1..FeatConfs |-> NoConference]
    /\ sessions = [j \in 1..FeatSessions |-> NoSession]
    /\ call = [p \in 1..FeatProcs |-> Idle]
    /\ memcache = NoEntries
    /\ taskqueue = <<>>

NextFeatured ==
    \/ \E u \in Users : CreateConference(u, <<1>>, <<>>)
    \/ \E u \in Users, i \in ConfIds, speaker \in SpeakerInputs : CreateSession(u, i, speaker)
    \/ \E p \in Procs, k \in ConferenceKeys : CacheFeaturedSpeaker(p, k)
    \/ \E p \in Procs : FeatQuery(p)
    \/ \E p \in Procs : FeatSet(p)
    \/ \E p \in Procs : GetFeaturedSpeaker(p)
    \/ \E p \in Procs : Return(p)

SpecFeatured == InitFeatured /\ [][NextFeatured]_vars

\* conferences and sessions are created while the push queue delivers the
\* tasks they enqueue; the queue keeps delivering a task until it is accepted
MaxTasks == FeatConfs + FeatSessions

NextTasks ==
    \/ \E u \in Users : CreateConference(u, <<1>>, <<>>)
    \/ \E u \in Users, i \in ConfIds : CreateSession(u, i, <<>>)
    \/ \E n \in 1..MaxTasks : Deliver(n)

SpecTasks ==
    InitFeatured /\ [][NextTasks]_vars /\ \A n \in 1..MaxTasks : WF_vars(Deliver(n))

\* the announcement is computed and read while one organizer creates
\* conferences of one to six seats and registers for those of one seat
AnnConfs == 3
AnnProcs == 1

InitAnnounce ==
    /\ profiles = [u \in 1..1 |-> NoProfile]
    /\ conferences = [i \in 1..AnnConfs |-> NoConference]
    /\ sessions = [j \in 1..1 |-> NoSession]
    /\ call = [p \in 1..AnnProcs |-> Idle]
    /\ memcache = NoEntries
    /\ taskqueue = <<>>

NextAnnounce ==
    \/ \E u \in Users, m \in 1..(NearlySoldOut + 1) : CreateConference(u, <<m>>, <<>>)
    \/ \E p \in Procs, u \in Users, k \in ConferenceKeys : RegisterForConference(p, u, k)
    \/ \E p \in Procs : RegGetConf(p)
    \/ \E p \in Procs : RegCommit(p)
    \/ \E p \in Procs : CacheAnnouncement(p)
    \/ \E p \in Procs : AnnSet(p)
    \/ \E p \in Procs : GetAnnouncement(p)
    \/ \E p \in Procs : Return(p)

SpecAnnounce == InitAnnounce /\ [][NextAnnounce]_vars

\* one organizer registers for and unregisters from a conference of one or of
\* six seats while its featured speaker and the announcement are computed
FrameConfs == 1
FrameSessions == 2
FrameProcs == 1

\* keys a client can send: of any stored conference, or of none
StoredConferenceKeys ==
    {ConfKey(0)} \cup {ConfKey(i) : i \in {h \in ConfIds : conferences[h].exists}}

InitFrame ==
    /\ profiles = [u \in 1..1 |-> NoProfile]
    /\ conferences = [i \in 1..FrameConfs |-> NoConference]
    /\ sessions = [j \in 1..FrameSessions |-> NoSession]
    /\ call = [p \in 1..FrameProcs |-> Idle]
    /\ memcache = NoEntries
    /\ taskqueue = <<>>

NextFrame ==
    \/ \E u \in Users, m \in {1, NearlySoldOut + 1} : CreateConference(u, <<m>>, <<>>)
    \/ \E u \in Users, i \in ConfIds : CreateSession(u, i, <<"A">>)
    \/ \E p \in Procs, u \in Users, k \in StoredConferenceKeys : RegisterForConference(p, u, k)
    \/ \E p \in Procs, u \in Users, k \in StoredConferenceKeys : UnregisterFromConference(p, u, k)
    \/ \E p \in Procs : RegGetConf(p)
    \/ \E p \in Procs : RegCommit(p)
    \/ \E p \in Procs, k \in StoredConferenceKeys : CacheFeaturedSpeaker(p, k)
    \/ \E p \in Procs : FeatQuery(p)
    \/ \E p \in Procs : FeatSet(p)
    \/ \E p \in Procs : CacheAnnouncement(p)
    \/ \E p \in Procs : AnnSet(p)
    \/ \E p \in Procs : Return(p)

SpecFrame == InitFrame /\ [][NextFrame]_vars

\* the organizer and another user register for a conference of one seat while
\* the conference is updated
UpdateFields == {<<>>, <<0>>, <<2>>}

InitUpdate ==
    /\ profiles = [u \in 1..NUsers |-> NoProfile]
    /\ conferences = [i \in 1..MaxConfs |-> NoConference]
    /\ sessions = [j \in 1..MaxSessions |-> NoSession]
    /\ call = [p \in 1..NProcs |-> Idle]
    /\ memcache = NoEntries
    /\ taskqueue = <<>>

NextUpdate ==
    \/ \E u \in Users : CreateConference(u, <<1>>, <<>>)
    \/ \E p \in Procs, u \in Users, k \in StoredConferenceKeys : RegisterForConference(p, u, k)
    \/ \E p \in Procs : RegGetConf(p)
    \/ \E p \in Procs : RegCommit(p)
    \/ \E p \in Procs, u \in Users, k \in StoredConferenceKeys,
          maxAttendees \in UpdateFields, seatsAvailable \in UpdateFields :
             UpdateConference(p, u, k, maxAttendees, seatsAvailable)
    \/ \E p \in Procs : UpdCommit(p)
    \/ \E p \in Procs : Return(p)

SpecUpdate == InitUpdate /\ [][NextUpdate]_vars

\* conferences are created with maxAttendees and seatsAvailable sent or left out
CreateConfs == 2
CreateFields == {<<>>, <<0>>, <<2>>, <<3>>}

InitCreate ==
    /\ profiles = [u \in 1..NUsers |-> NoProfile]
    /\ conferences = [i \in 1..CreateConfs |-> NoConference]
    /\ sessions = [j \in 1..1 |-> NoSession]
    /\ call = [p \in 1..1 |-> Idle]
    /\ memcache = NoEntries
    /\ taskqueue = <<>>

NextCreate ==
    \E u \in Users, maxAttendees \in CreateFields, seatsAvailable \in CreateFields :
        CreateConference(u, maxAttendees, seatsAvailable)

SpecCreate == InitCreate /\ [][NextCreate]_vars

\* all users register for and unregister from conferences of one or two seats
NextRegistration ==
    \/ \E u \in Users, m \in 1..(MaxSeats + 1) : CreateConference(u, <<m>>, <<>>)
    \/ \E p \in Procs, u \in Users, k \in StoredConferenceKeys : RegisterForConference(p, u, k)
    \/ \E p \in Procs, u \in Users, k \in StoredConferenceKeys : UnregisterFromConference(p, u, k)
    \/ \E p \in Procs : RegGetConf(p)
    \/ \E p \in Procs : RegCommit(p)
    \/ \E p \in Procs : Return(p)

SpecRegistration == Init /\ [][NextRegistration]_vars

\* the wishlist is sent keys of stored sessions, conferences and profiles
WebsafeKeys == SessionKeys \cup StoredConferenceKeys \cup {ProfKey(u) : u \in Users}

NextKinds ==
    \/ \E u \in Users : CreateConference(u, <<1>>, <<>>)
    \/ \E u \in Users, i \in ConfIds : CreateSession(u, i, <<>>)
    \/ \E p \in Procs, u \in Users, k \in WebsafeKeys : AddSessionToWishlist(p, u, k)
    \/ \E p \in Procs : AddCommit(p)
    \/ \E p \in Procs : Return(p)

SpecKinds == InitWishlist /\ [][NextKinds]_vars

\* two conferences of one organizer with two sessions each, every session of
\* speaker A or B: the featured speaker is computed and read, one call after
\* another
InitLastWins ==
    /\ profiles = [u \in 1..1 |-> NoProfile]
    /\ conferences = [i \in 1..2 |-> CreatedConference(1, <<1>>, <<>>)]
    /\ \E speakers \in [1..4 -> {<<"A">>, <<"B">>}] :
          sessions = [j \in 1..4 |-> CreatedSession((j + 1) \div 2, speakers[j])]
    /\ call = [p \in 1..SeqN |-> Idle]
    /\ memcache = NoEntries
    /\ taskqueue =
          [i \in 1..2 |-> Task(SendEmailUrl, "conferenceInfo", ConfKey(i))] \o
          [j \in 1..4 |-> Task(FeaturedSpeakerUrl, "websafeConferenceKey", ConfKey((j + 1) \div 2))]

NextLastWins ==
    \/ \E p \in Procs, k \in ConferenceKeys : Turn(p) /\ CacheFeaturedSpeaker(p, k)
    \/ \E p \in Procs : FeatQuery(p)
    \/ \E p \in Procs : FeatSet(p)
    \/ \E p \in Procs : Turn(p) /\ GetFeaturedSpeaker(p)

SpecLastWins == InitLastWins /\ [][NextLastWins]_vars

\* ---- properties ----
\* handler p takes a step
Acts(p) == call'[p].pc # call[p].pc \/ call'[p].retries # call[p].retries

\* handler p takes a step of a request with operation in ops
StepOf(p, ops) ==
    /\ Acts(p)
    /\ call'[p].pc # "idle"
    /\ call'[p].op \in ops

Registered(u, k) == InList(k, profiles[u].conferenceKeysToAttend)
OnWishlist(u, k) == InList(k, profiles[u].sessWishlist)

\* the two lists of every Profile are as they were
ListsUnchanged ==
    \A u \in Users :
        /\ profiles'[u].conferenceKeysToAttend = profiles[u].conferenceKeysToAttend
        /\ profiles'[u].sessWishlist = profiles[u].sessWishlist

\* C1: every stored conference has 0 <= seatsAvailable <= maxAttendees
C1_SeatsWithinCapacity ==
    \A i \in ConfIds :
        conferences[i].exists =>
            /\ 0 <= conferences[i].seatsAvailable
            /\ conferences[i].seatsAvailable <= conferences[i].maxAttendees

\* C2: when RaceN distinct users register concurrently for a conference with
\* one seat left, seatsAvailable never goes below 0, at most one call succeeds,
\* and once all have answered exactly one has succeeded, every other one has
\* failed with the sold-out Conflict, and seatsAvailable is 0
Winners == {p \in Procs : call[p].pc = "done" /\ call[p].result = "True"}
RaceFinished == \A p \in Procs : call[p].pc = "done"

C2_LastSeatRace ==
    /\ conferences[1].seatsAvailable >= 0
    /\ Cardinality(Winners) <= 1
    /\ RaceFinished =>
          /\ Cardinality(Winners) = 1
          /\ \A p \in Procs \ Winners : call[p].result = "Conflict: no seats available"
          /\ conferences[1].seatsAvailable = 0

C2_Witness == RaceFinished /\ Cardinality(Winners) = 1

\* C3: a Register call whose transaction reads a Profile that already holds the
\* conference key ends with the already-registered Conflict, and neither the
\* step that read the Profile nor the step that raised changes the store
AlreadyRegistered(c) ==
    /\ c.pc = "reg_conf"
    /\ UNCHANGED side
    /\ c.op = "register"
    /\ InList(c.wsck, c.prof.conferenceKeysToAttend)

C3_RegisterTwiceConflict ==
    [][\A p \in Procs :
          /\ (Acts(p) /\ AlreadyRegistered(call'[p])) => UNCHANGED store
          /\ (Acts(p) /\ AlreadyRegistered(call[p])) =>
                /\ call'[p].pc = "done"
                /\ call'[p].result = "Conflict: already registered"
                /\ UNCHANGED store]_vars

C3_Witness ==
    \E p \in Procs :
        /\ call[p].pc = "done"
        /\ call[p].op = "register"
        /\ call[p].result = "Conflict: already registered"
        /\ Registered(call[p].user, call[p].wsck)

\* C4: an Unregister call for a stored conference whose transaction reads a
\* Profile without the key raises nothing, answers False unless the datastore
\* aborts the transaction, and no step of it changes any seatsAvailable or list
NothingToUnregister(c) ==
    /\ c.op = "unregister"
    /\ \/ /\ c.pc = "reg_conf"
          /\ ReadConference(c).exists
          /\ ~InList(c.wsck, c.prof.conferenceKeysToAttend)
       \/ /\ c.pc = "reg_commit"
          /\ c.retval = "False"

C5_FailuresChangeNothing ==
    [][\A p \in Procs :
          /\ (StepOf(p, {"register", "unregister"}) /\ call'[p].result \notin {"True", "False"})
                => UNCHANGED store
          /\ (Acts(p) /\ call[p].pc = "reg_conf") =>
                LET c == call[p]
                    conf == ReadConference(c)
                IN
                /\ ~conf.exists => call'[p].result = "NotFound"
                /\ (c.op = "register" /\ conf.exists /\ conf.seatsAvailable <= 0) =>
                      call'[p].result =
                          IF InList(c.wsck, c.prof.conferenceKeysToAttend)
                          THEN "Conflict: already registered"
                          ELSE "Conflict: no seats available"]_vars

C5_Witness ==
    \E p, q \in Procs :
        /\ call[p].pc = "done" /\ call[q].pc = "done"
        /\ call[p].op \in {"register", "unregister"}
        /\ call[p].result = "NotFound"
        /\ ~profiles[call[p].user].exists
        /\ call[q].op = "register"
        /\ call[q].result = "Conflict: no seats available"
        /\ ~profiles[call[q].user].exists

\* C6: every step of a Register or Unregister call either changes no list and
\* no conference, or it is the commit of a successful call and, in that one
\* step, appends the key and takes one seat (Register) or removes the key and
\* gives one seat back (Unregister); a call answers True only with that step
C6_RegistrationAtomic ==
    [][\A p \in Procs :
          StepOf(p, {"register", "unregister"}) =>
              LET u == call'[p].user
                  k == call'[p].wsck
                  att == profiles[u].conferenceKeysToAttend
              IN
              IF call'[p].result = "True"
              THEN /\ profiles' = [profiles EXCEPT ![u] =
                          [exists |-> TRUE,
                           conferenceKeysToAttend |->
                               IF call'[p].op = "register"
                               THEN Append(att, k) ELSE ListRemove(att, k),
                           sessWishlist |-> profiles[u].sessWishlist]]
                   /\ InList(k, att) <=> call'[p].op = "unregister"
                   /\ conferences' = [conferences EXCEPT ![k.id].seatsAvailable =
                          IF call'[p].op = "register" THEN @ - 1 ELSE @ + 1]
                   /\ sessions' = sessions
              ELSE /\ conferences' = conferences
                   /\ ListsUnchanged
                   /\ sessions' = sessions]_vars

C6_Witness ==
    \E p \in Procs :
        /\ call[p].pc = "done"
        /\ call[p].op = "unregister"
        /\ call[p].result = "True"
        /\ ~Registered(call[p].user, call[p].wsck)

\* C7: in every reachable state no Profile holds a reference twice in
\* conferenceKeysToAttend, nor twice in sessWishlist
C7_NoDuplicateReferences ==
    \A u \in Users :
        /\ NoDuplicates(profiles[u].conferenceKeysToAttend)
        /\ NoDuplicates(profiles[u].sessWishlist)

\* two requests of one user in flight, one on each list, both lists non-empty
C7_Witness ==
    \E u \in Users, p, q \in Procs :
        /\ profiles[u].conferenceKeysToAttend # <<>>
        /\ profiles[u].sessWishlist # <<>>
        /\ call[p].user = u /\ call[q].user = u
        /\ call[p].pc = "reg_commit"
        /\ call[q].pc \in {"add_commit", "del_put"}

\* C8: AddToWishlist answers NotFound for a key that does not resolve and
\* Conflict for a key already on the caller's wishlist, the wishlist unchanged
\* in both cases, and otherwise appends the key once (a call the datastore
\* aborts after its retries changes nothing)
C8_AddToWishlist ==
    [][\A p \in Procs :
          (StepOf(p, {"addWishlist"}) /\ call'[p].pc = "done") =>
              LET u == call'[p].user
                  k == call'[p].wsck
                  r == call'[p].result
              IN
              \/ r = "TransactionFailedError" /\ profiles' = profiles
              \/ IF ~GetSession(k).exists
                 THEN r = "NotFound" /\ profiles' = profiles
                 ELSE IF OnWishlist(u, k)
                 THEN r = "Conflict: already on wishlist" /\ profiles' = profiles
                 ELSE /\ r = "True"
                      /\ profiles'[u].sessWishlist = Append(profiles[u].sessWishlist, k)]_vars

\* C9: RemoveFromWishlist answers NotFound, and changes nothing, for a key that
\* does not resolve, and answers Conflict, and changes nothing, for a stored
\* session that is not on the wishlist the request has read
C9_RemoveFromWishlist ==
    [][\A p \in Procs :
          StepOf(p, {"deleteWishlist"}) =>
              LET k == call'[p].wsck IN
              /\ ~GetSession(k).exists =>
                    /\ profiles' = profiles
                    /\ call'[p].pc = "done" => call'[p].result = "NotFound"
              /\ (/\ GetSession(k).exists
                  /\ call'[p].pc \in {"del_sess", "del_newprof"}
                  /\ ~InList(k, call'[p].prof.sessWishlist)) => profiles' = profiles
              /\ (/\ GetSession(k).exists
                  /\ call[p].pc = "del_sess"
                  /\ ~InList(k, call[p].prof.sessWishlist)) =>
                    /\ call'[p].result = "Conflict: not on wishlist"
                    /\ profiles' = profiles]_vars

\* C10: every wishlist call that answers True has exactly its own effect on
\* the stored sessWishlist: an add appends its key, a remove takes its key out
\* and brings no other key back nor drops one; and no key is duplicated
C10_WishlistCallsTakeEffect ==
    [][\A p \in Procs :
          (StepOf(p, {"addWishlist", "deleteWishlist"}) /\ call'[p].result = "True") =>
              LET u == call'[p].user
                  k == call'[p].wsck
                  wish == profiles[u].sessWishlist
              IN
              /\ profiles'[u].sessWishlist =
                     IF call'[p].op = "addWishlist"
                     THEN Append(wish, k) ELSE ListRemove(wish, k)
              /\ NoDuplicates(profiles'[u].sessWishlist)]_vars

\* C11: the transaction of an AddToWishlist call for a stored session uses the
\* caller's own Profile group and no other, whoever organizes the conference
\* of the session, so the datastore never refuses it as a cross-group one
C11_AddSingleEntityGroup ==
    \A p \in Procs :
        (call[p].op = "addWishlist" /\ GetSession(call[p].wsck).exists) =>
            /\ AddGroups(call[p]) = {call[p].user}
            /\ call[p].result # "BadRequestError"

\* C12: when one profile's AddToWishlist(s) succeeds, then its
\* RemoveFromWishlist(s) succeeds, then it calls AddToWishlist(s) again, with no
\* other call in between, the last call succeeds and s is on the profile's
\* sessWishlist exactly once when that call has been answered
Answered(p, o, u, k) ==
    /\ call[p].pc = "done"
    /\ call[p].op = o
    /\ call[p].user = u
    /\ call[p].wsck = k

AddRemoveAdd(p, u, k) ==
    /\ Answered(p, "addWishlist", u, k) /\ call[p].result = "True"
    /\ Answered(p + 1, "deleteWishlist", u, k) /\ call[p + 1].result = "True"
    /\ Answered(p + 2, "addWishlist", u, k)
    /\ \A q \in Procs : q > p + 2 => call[q].pc = "idle"

Occurrences(x, s) == Cardinality({n \in 1..Len(s) : s[n] = x})

C12_AddRemoveAdd ==
    \A p \in 1..(SeqN - 2), u \in Users, k \in SessionKeys :
        AddRemoveAdd(p, u, k) =>
            /\ call[p + 2].result = "True"
            /\ Occurrences(k, profiles[u].sessWishlist) = 1

C12_Witness ==
    \E p \in 1..(SeqN - 2), u \in Users, k \in SessionKeys :
        AddRemoveAdd(p, u, k) /\ call[p + 2].result = "True"

\* C13: ListWishlist never fails because of a stale entry: for a wishlist that
\* holds keys which do not resolve it answers with the forms of exactly the
\* sessions whose keys resolve, in the order of the list
Resolving(keys) == SelectSeq(keys, LAMBDA k : GetSession(k).exists)

C13_ListDropsStaleEntries ==
    [][\A p \in Procs :
          (Acts(p) /\ call[p].pc = "list_get") =>
              LET keys == Resolving(call[p].prof.sessWishlist) IN
              /\ call'[p].result = "SessionForms"
              /\ call'[p].items =
                     [n \in 1..Len(keys) |-> CopySessionToForm(keys[n], GetSession(keys[n]))]]_vars

\* C14: a run of RecomputeFeatured publishes and returns a speaker if and only
\* if the greatest number of sessions one speaker has in the conference is at
\* least 2, and the speaker it returns has that greatest number; a run that
\* does not publish leaves the cache as it was
MaxAppearances(list) ==
    IF list = <<>> THEN 0
    ELSE CHOOSE m \in 1..Len(list) :
            /\ \E key \in Keys(list) : Count(list, key) = m
            /\ \A key \in Keys(list) : Count(list, key) <= m

Recomputes(p) == call[p].op = "cacheFeaturedSpeaker" /\ Acts(p)

C15_NoQualifierClearsCache ==
    [][\A p \in Procs :
          (/\ Recomputes(p)
           /\ call[p].pc = "feat_query"
           /\ MaxAppearances(SpeakerList(call[p].wsck.id)) < 2) =>
              /\ call'[p].pc = "done"
              /\ call'[p].result = "None"
              /\ memcache'[MEMCACHE_FEATURED_KEY] = <<>>]_vars

\* C17: when several speakers have the greatest number of sessions, the run
\* chooses the one that comes first in the iteration order over the counts: no
\* key before the chosen one has as many sessions
PlaceIn(order, key) == CHOOSE n \in 1..Len(order) : order[n] = key

C17_FirstEncounteredWins ==
    [][\A p \in Procs :
          (Recomputes(p) /\ call'[p].pc = "feat_set") =>
              LET list == SpeakerList(call[p].wsck.id)
                  order == call'[p].order
                  chosen == call'[p].retval
              IN
              /\ Keys(list) = {order[n] : n \in 1..Len(order)}
              /\ Count(list, chosen) = MaxAppearances(list)
              /\ \A n \in 1..(PlaceIn(order, chosen) - 1) :
                     Count(list, order[n]) < Count(list, chosen)]_vars

\* A and B have two sessions each, B is visited first and is chosen
C17_Witness ==
    \E p \in Procs :
        /\ call[p].pc = "done"
        /\ call[p].op = "cacheFeaturedSpeaker"
        /\ call[p].order = <<"B", "A">>
        /\ call[p].result = "B"
        /\ Count(SpeakerList(call[p].wsck.id), "A") = 2
        /\ Count(SpeakerList(call[p].wsck.id), "B") = 2

\* C19: GetFeaturedSpeaker answers the cached featured speaker when the entry
\* is set and the sentinel message when it is not, whatever the datastore
\* holds, and changes neither the datastore nor the cache nor the queue
C19_GetFeaturedIsPureRead ==
    [][\A p \in Procs :
          (Acts(p) /\ call'[p].op = "getFeaturedSpeaker") =>
              /\ call'[p].pc = "done"
              /\ call'[p].result =
                     IF memcache[MEMCACHE_FEATURED_KEY] = <<>>
                     THEN NoFeaturedSpeakers
                     ELSE memcache[MEMCACHE_FEATURED_KEY][1]
              /\ UNCHANGED <<store, memcache, taskqueue>>]_vars

C19_Witness ==
    \E p \in Procs :
        /\ call[p].pc = "done"
        /\ call[p].op = "getFeaturedSpeaker"
        /\ call[p].result = "A"
        /\ memcache[MEMCACHE_FEATURED_KEY] = <<"A">>

\* C18: when RecomputeFeatured completes for one conference and then for
\* another, each with a speaker that qualifies, and GetFeaturedSpeaker is
\* called next, it answers the speaker of the second conference: the one
\* entry holds what the last run published and no longer the first speaker
Published(p, i, speaker) ==
    /\ Answered(p, "cacheFeaturedSpeaker", 0, ConfKey(i))
    /\ call[p].result = speaker

TwoRunsThenRead(p, i1, s1, i2, s2) ==
    /\ Published(p, i1, s1)
    /\ Published(p + 1, i2, s2)
    /\ Answered(p + 2, "getFeaturedSpeaker", 0, NoKey)

C18_LastConferenceWins ==
    \A p \in 1..(SeqN - 2), i1, i2 \in ConfIds, s1, s2 \in {"A", "B"} :
        (i1 # i2 /\ TwoRunsThenRead(p, i1, s1, i2, s2)) => call[p + 2].result = s2

\* conference 1 has published A, then conference 2 has published B
C18_Witness ==
    \E p \in 1..(SeqN - 2) :
        /\ TwoRunsThenRead(p, 1, "A", 2, "B")
        /\ call[p + 2].result = "B"

\* C16: every session created in a conference enqueues a task whose delivery,
\* the queue being fair, leads to a run of _cacheFeaturedSpeaker for that
\* conference.
SessionCreatedIn(i) == \E j \in SessIds : sessions[j].exists /\ sessions[j].conf = i

RecomputeRuns(i) ==
    \E p \in Procs : call[p].op = "cacheFeaturedSpeaker" /\ call[p].wsck = ConfKey(i)

C16_SessionJobRunsRecompute ==
    \A i \in 1..FeatConfs : SessionCreatedIn(i) ~> RecomputeRuns(i)

\* C20: _cacheAnnouncement publishes a text that lists exactly the names of
\* the conferences that have more than 0 and at most 5 seats available when it
\* queries them, joined by commas: the query gives each of these names once
\* and no other, and the text stored is the template followed by the names
\* of the query.
Listed(names, i) == \E n \in DOMAIN names : names[n] = ConfName(i)

NearlyFull(i) ==
    /\ conferences[i].exists
    /\ 0 < conferences[i].seatsAvailable
    /\ conferences[i].seatsAvailable <= 5

C20_AnnouncementListsNearlySoldOut ==
    [][\A p \in Procs :
          /\ (call[p].pc = "idle" /\ call'[p].op = "cacheAnnouncement") =>
                /\ \A i \in ConfIds : Listed(call'[p].items, i) <=> NearlyFull(i)
                /\ Len(call'[p].items) = Cardinality({i \in ConfIds : NearlyFull(i)})
          /\ (call[p].pc = "ann_set" /\ call'[p].pc = "done" /\ call[p].items # <<>>) =>
                /\ memcache'[MEMCACHE_ANNOUNCEMENTS_KEY] =
                      <<ANNOUNCEMENT_TPL \o Join(call[p].items)>>
                /\ call'[p].result = ANNOUNCEMENT_TPL \o Join(call[p].items)]_vars

\* conferences with 3, 0 and 6 seats available: the text names the first alone
C20_Witness ==
    /\ conferences[1].exists /\ conferences[1].seatsAvailable = 3
    /\ conferences[2].exists /\ conferences[2].seatsAvailable = 0
    /\ conferences[3].exists /\ conferences[3].seatsAvailable = 6
    /\ \E p \in Procs :
          /\ call[p].op = "cacheAnnouncement" /\ call[p].pc = "done"
          /\ call[p].result =
                "Last chance to attend! The following conferences are nearly sold out: PyCon"
    /\ memcache[MEMCACHE_ANNOUNCEMENTS_KEY] =
          <<"Last chance to attend! The following conferences are nearly sold out: PyCon">>

\* C21: when no conference has more than 0 and at most 5 seats available,
\* _cacheAnnouncement finds none and deletes the cache entry instead of storing
\* an empty string; getAnnouncement answers the empty string when the entry is
\* absent and the cached text otherwise.
C21_NoAnnouncementIsAbsence ==
    [][\A p \in Procs :
          /\ (/\ call[p].pc = "idle" /\ call'[p].op = "cacheAnnouncement"
              /\ \A i \in ConfIds : ~NearlyFull(i)) =>
                call'[p].items = <<>>
          /\ (call[p].pc = "ann_set" /\ call'[p].pc = "done" /\ call[p].items = <<>>) =>
                /\ memcache'[MEMCACHE_ANNOUNCEMENTS_KEY] = <<>>
                /\ call'[p].result = ""
          /\ (call[p].pc = "idle" /\ call'[p].op = "getAnnouncement") =>
                /\ call'[p].pc = "done"
                /\ call'[p].result =
                      IF memcache[MEMCACHE_ANNOUNCEMENTS_KEY] = <<>> THEN ""
                      ELSE memcache[MEMCACHE_ANNOUNCEMENTS_KEY][1]]_vars

\* the only conference has sold out: the run has answered the empty string and
\* the entry is absent
C21_Witness ==
    /\ conferences[1].exists /\ conferences[1].seatsAvailable = 0
    /\ \A i \in ConfIds : ~NearlyFull(i)
    /\ \E p \in Procs :
          /\ call[p].op = "cacheAnnouncement" /\ call[p].pc = "done"
          /\ call[p].result = ""
    /\ memcache[MEMCACHE_ANNOUNCEMENTS_KEY] = <<>>

\* C22: a step of registerForConference or unregisterFromConference changes
\* nothing but the caller's Profile and the conference of the request: both
\* cache entries, the task queue, the sessions, the other profiles and the
\* other conferences are as they were, also when seatsAvailable enters or
\* leaves 1..5.
C22_RegistrationLeavesCacheAndQueue ==
    [][\A p \in Procs :
          StepOf(p, {"register", "unregister"}) =>
              /\ memcache' = memcache
              /\ taskqueue' = taskqueue
              /\ sessions' = sessions
              /\ \A u \in Users : u # call'[p].user => profiles'[u] = profiles[u]
              /\ \A i \in ConfIds :
                    ConfKey(i) # call'[p].wsck => conferences'[i] = conferences[i]]_vars

\* the caller has given back the sixth seat of a conference the cached
\* announcement still names
C22_Witness ==
    /\ conferences[1].exists /\ conferences[1].seatsAvailable = 6
    /\ \E p \in Procs :
          /\ call[p].op = "unregister" /\ call[p].pc = "done"
          /\ call[p].result = "True"
    /\ memcache[MEMCACHE_ANNOUNCEMENTS_KEY] = <<ANNOUNCEMENT_TPL \o ConfName(1)>>
    /\ memcache[MEMCACHE_FEATURED_KEY] = <<"A">>
    /\ taskqueue # <<>>

\* C23: the seatsAvailable of a stored conference changes only in a step of
\* registerForConference or unregisterFromConference; updateConference leaves
\* it as it is whatever fields the organizer sends.
C23_SeatsChangeOnlyByRegistration ==
    [][\A i \in ConfIds :
          (conferences[i].exists /\
           conferences'[i].seatsAvailable # conferences[i].seatsAvailable) =>
              \E p \in Procs : /\ StepOf(p, {"register", "unregister"})
                               /\ call'[p].wsck = ConfKey(i)]_vars

\* C24: a conference that createConference has just stored has seatsAvailable
\* equal to maxAttendees, whatever maxAttendees and seatsAvailable the request
\* sent or left out.
C24_CreatedSeatsEqualMaxAttendees ==
    [][\A i \in ConfIds :
          (~conferences[i].exists /\ conferences'[i].exists) =>
              conferences'[i].seatsAvailable = conferences'[i].maxAttendees]_vars

\* C25: seat conservation. While the only calls are registerForConference and
\* unregisterFromConference, in any interleaving, every stored conference
\* created with maxAttendees > 0 has seatsAvailable plus the number of
\* profiles that hold its key equal to maxAttendees.
Attendees(i) == {u \in Users : Registered(u, ConfKey(i))}

C25_SeatConservation ==
    \A i \in ConfIds :
        (conferences[i].exists /\ conferences[i].maxAttendees > 0) =>
            conferences[i].seatsAvailable + Cardinality(Attendees(i)) =
                conferences[i].maxAttendees

\* user 1 holds one of two seats and user 2 has given the other back
C25_Witness ==
    /\ conferences[1].exists /\ conferences[1].maxAttendees = 2
    /\ conferences[1].seatsAvailable = 1
    /\ Attendees(1) = {1}
    /\ \E p \in Procs :
          /\ call[p].op = "unregister" /\ call[p].user = 2
          /\ call[p].pc = "done" /\ call[p].result = "True"

\* C26: a Profile write made outside a transaction (deleteSessionInWishlist)
\* that overlaps a registerForConference or unregisterFromConference of the
\* same user never puts back a stale conferenceKeysToAttend: once every call
\* has answered, a user holds the key of a conference exactly when that user's
\* seat is taken off seatsAvailable, so the seats left and the holders of the
\* key add up to maxAttendees.
AllAnswered == \A p \in Procs : call[p].pc \in {"idle", "done"}

C26_NoStaleProfileWrite ==
    AllAnswered =>
        \A i \in ConfIds :
            conferences[i].exists =>
                conferences[i].maxAttendees - conferences[i].seatsAvailable =
                    Cardinality({u \in Users : Registered(u, ConfKey(i))})

\* C27: a run of _cacheFeaturedSpeaker for a conference that has no session
\* with a non-empty speaker (no session at all, or only sessions whose speaker
\* is empty) returns None, raises nothing and leaves the cache as it is.
C27_NoSpeakerReturnsNone ==
    [][\A p \in Procs :
          (/\ Recomputes(p)
           /\ call[p].pc = "feat_query"
           /\ SpeakerList(call[p].wsck.id) = <<>>) =>
              /\ call'[p].pc = "done"
              /\ call'[p].result = "None"
              /\ memcache' = memcache]_vars

\* C28: every element of every profile's sessWishlist is the key of a stored
\* Session: addSessionToWishlist never appends a key of another kind.
C28_WishlistHoldsSessionKeys ==
    \A u \in Users :
        \A n \in DOMAIN profiles[u].sessWishlist :
            LET key == profiles[u].sessWishlist[n] IN
            key.kind = "Session" /\ GetSession(key).exists

====
